---- MODULE Spec2Model ----
(***************************************************************************)
(* Model of the Textract normalizer (src/main.py): the invoice parser, the *)
(* prescription parser and the quality scorer.                             *)
(*                                                                         *)
(* Text is a sequence of one-character strings, so that the regular        *)
(* expressions, str.lower(), str.isupper(), str.strip(), float(), int()    *)
(* and datetime.strptime() of the source are computed character by         *)
(* character.  Optional[T] is a tuple: <<>> is None, <<v>> is the value v. *)
(* Floats are exact decimals [num, den]; confidences are in tenths of a    *)
(* percent and the quality score in hundredths.                            *)
(***************************************************************************)
EXTENDS Integers, Sequences, FiniteSets, TLC

VARIABLES
    blocks,        \* textract_json["Blocks"], the input block graph
    pc,            \* position in the parser's __init__ / _parse_data
    lines,         \* self.lines
    invoice,       \* self.invoice (Invoice dataclass)
    confidences,   \* local of TextractInvoiceParser._parse_data
    found_fields,  \* local of TextractInvoiceParser._parse_data
    prescription,  \* self.prescription (Prescription dataclass)
    current_med,   \* local of TextractPrescriptionParser._parse_data
    idx,           \* index of the medication loop over self.lines
    exc            \* the exception that left the constructor, "" if none

vars == <<blocks, pc, lines, invoice, confidences, found_fields,
          prescription, current_med, idx, exc>>

----------------------------------------------------------------------------
(* Characters *)

EuroSign == "<euro>"
IGrave == "<i-grave>"
AGrave == "<a-grave>"
Micro == "<micro>"

DigitChars == <<"0", "1", "2", "3", "4", "5", "6", "7", "8", "9">>
UpperChars == <<"A", "B", "C", "D", "E", "F", "G", "H", "I", "J", "K", "L", "M", "N", "O", "P", "Q", "R", "S", "T", "U", "V", "W", "X", "Y", "Z">>
LowerChars == <<"a", "b", "c", "d", "e", "f", "g", "h", "i", "j", "k", "l", "m", "n", "o", "p", "q", "r", "s", "t", "u", "v", "w", "x", "y", "z">>

Range(s) == {s[k] : k \in DOMAIN s}
Digits == Range(DigitChars)
UpperSet == Range(UpperChars)
LowerSet == Range(LowerChars) \cup {IGrave, AGrave, Micro}
Whitespace == {" "}

ToLower == [c \in UpperSet |-> LowerChars[CHOOSE k \in 1..Len(UpperChars) : UpperChars[k] = c]]
DigitValue == [c \in Digits |-> (CHOOSE k \in 1..Len(DigitChars) : DigitChars[k] = c) - 1]

\* str.lower() on one character
Lower(c) == IF c \in UpperSet THEN ToLower[c] ELSE c

\* str.lower()
LowerText(s) == [k \in 1..Len(s) |-> Lower(s[k])]

\* str.isupper(): at least one cased character and no lower-case one
IsUpper(s) ==
    /\ \E k \in 1..Len(s) : s[k] \in UpperSet
    /\ \A k \in 1..Len(s) : s[k] \notin LowerSet

\* `sub in s`
Contains(s, sub) ==
    \E i \in 1..(Len(s) - Len(sub) + 1) :
        \A j \in 1..Len(sub) : s[i + j - 1] = sub[j]

\* str.strip()
Strip(s) ==
    LET keep == {k \in 1..Len(s) : s[k] \notin Whitespace}
    IN  IF keep = {} THEN <<>>
        ELSE LET a == CHOOSE k \in keep : \A j \in keep : k <= j
                 b == CHOOSE k \in keep : \A j \in keep : k >= j
             IN  SubSeq(s, a, b)

\* str.replace(",", ".")
ReplaceComma(s) == [k \in 1..Len(s) |-> IF s[k] = "," THEN "." ELSE s[k]]

RECURSIVE DigitsToInt(_)
\* int() of a string of decimal digits
DigitsToInt(s) ==
    IF s = <<>> THEN 0
    ELSE 10 * DigitsToInt(SubSeq(s, 1, Len(s) - 1)) + DigitValue[s[Len(s)]]

None == <<>>
Some(v) == <<v>>

----------------------------------------------------------------------------
(* Regular expressions.  A pattern is a sequence of atoms; an atom is an   *)
(* alternation of literals or a greedy repetition of a character class.    *)
(* In every pattern of the source a repetition is followed by nothing its  *)
(* class can match (or by the end of the pattern), so greedy matching      *)
(* without backtracking is re's leftmost match.                            *)

\* (w1|w2|...): the first alternative that matches
Alt(words, ci) == [alts |-> words, set |-> {}, lo |-> 1, hi |-> 1, unb |-> FALSE, ci |-> ci]
\* a literal
Lit(w, ci) == Alt(<<w>>, ci)
\* [set]{lo,hi}
Rep(set, lo, hi, ci) == [alts |-> <<>>, set |-> set, lo |-> lo, hi |-> hi, unb |-> FALSE, ci |-> ci]
\* [set]* (lo = 0) and [set]+ (lo = 1)
RepUnb(set, lo, ci) == [alts |-> <<>>, set |-> set, lo |-> lo, hi |-> lo, unb |-> TRUE, ci |-> ci]

InClass(a, c) == c \in a.set \/ (a.ci /\ Lower(c) \in a.set)

WordAt(w, ci, s, i) ==
    /\ i + Len(w) - 1 <= Len(s)
    /\ \A j \in 1..Len(w) : IF ci THEN Lower(s[i + j - 1]) = Lower(w[j])
                                  ELSE s[i + j - 1] = w[j]

RECURSIVE RunLen(_, _, _, _)
\* the number of characters from s[i + n] on that a repetition takes
RunLen(a, s, i, n) ==
    IF /\ (a.unb \/ n < a.hi)
       /\ i + n <= Len(s)
       /\ InClass(a, s[i + n])
    THEN RunLen(a, s, i, n + 1)
    ELSE n

\* the least element of a non-empty set of integers, and the greatest
Min(S) == CHOOSE x \in S : \A y \in S : x <= y
Max(S) == CHOOSE x \in S : \A y \in S : x >= y

\* the index of the first alternative that matches, given those that match
FirstAltEnd(a, i, hit) == IF hit = {} THEN 0 ELSE i + Len(a.alts[Min(hit)])

\* a repetition that took n characters matches if it took at least lo
RepEnd(a, i, n) == IF n < a.lo THEN 0 ELSE i + n

\* the position after atom a matched at s[i], 0 if it does not match
AtomEnd(a, s, i) ==
    IF a.alts # <<>>
    THEN FirstAltEnd(a, i, {k \in 1..Len(a.alts) : WordAt(a.alts[k], a.ci, s, i)})
    ELSE RepEnd(a, i, RunLen(a, s, i, 0))

RECURSIVE MatchFrom(_, _, _, _, _)
RECURSIVE MatchRest(_, _, _, _, _)
\* atom k matched up to e (0: it did not): the atoms after it
MatchRest(pat, k, s, e, ends) ==
    IF e = 0 THEN <<>> ELSE MatchFrom(pat, k + 1, s, e, Append(ends, e))

\* atoms k.. of the pattern at s[i]: the end of every atom, <<>> if one fails
MatchFrom(pat, k, s, i, ends) ==
    IF k > Len(pat) THEN ends
    ELSE MatchRest(pat, k, s, AtomEnd(pat[k], s, i), ends)

\* re.match at position i: the end of every atom, <<>> if there is no match
MatchAt(pat, s, i) == MatchFrom(pat, 1, s, i, <<>>)

NoMatch == [start |-> 0, ends |-> <<>>]

\* the match that starts first
Leftmost(ms) ==
    IF ms = {} THEN NoMatch ELSE CHOOSE m \in ms : \A o \in ms : m.start <= o.start

\* re.search(pat, s): the leftmost match
Search(pat, s) ==
    Leftmost({m \in {[start |-> i, ends |-> MatchAt(pat, s, i)] : i \in 1..(Len(s) + 1)} :
                 m.ends # <<>>})

Matched(m) == m.start # 0

\* the text atom k of the pattern matched
Group(s, m, k) ==
    SubSeq(s, IF k = 1 THEN m.start ELSE m.ends[k - 1], m.ends[k] - 1)

----------------------------------------------------------------------------
(* Dates and floats *)

IsLeap(y) == (y % 4 = 0 /\ y % 100 # 0) \/ y % 400 = 0

DaysInMonth(y, m) ==
    IF m = 2 THEN (IF IsLeap(y) THEN 29 ELSE 28)
    ELSE IF m \in {4, 6, 9, 11} THEN 30 ELSE 31

\* the outcome of a call: exc = "" and a value, or the exception it raises
Returns(v) == [exc |-> "", val |-> v]
Raises(e) == [exc |-> e, val |-> None]

\* datetime.date(year, month, day): ValueError outside the calendar
DateCtor(y, m, d) ==
    IF y >= 1 /\ y <= 9999 /\ m >= 1 /\ m <= 12 /\ d >= 1 /\ d <= DaysInMonth(y, m)
    THEN Returns([kind |-> "date", y |-> y, m |-> m, d |-> d])
    ELSE Raises("ValueError")

StrptimePat ==
    <<Rep(Digits, 1, 2, FALSE), Lit(<<"/">>, FALSE), Rep(Digits, 1, 2, FALSE),
      Lit(<<"/">>, FALSE), Rep(Digits, 4, 4, FALSE)>>

\* datetime.strptime(text, "%d/%m/%Y").date(): the whole text must be
\* day/month/4-digit year and name a calendar day, else ValueError
Strptime(text) ==
    LET e == MatchAt(StrptimePat, text, 1)
    IN  IF e = <<>> \/ e[5] # Len(text) + 1 THEN Raises("ValueError")
        ELSE LET m == [start |-> 1, ends |-> e]
             IN  DateCtor(DigitsToInt(Group(text, m, 5)),
                          DigitsToInt(Group(text, m, 3)),
                          DigitsToInt(Group(text, m, 1)))

\* date.strftime() called without its format argument: always TypeError
StrftimeNoFormat(d) == Raises("TypeError")

RECURSIVE Pow10(_)
Pow10(k) == IF k = 0 THEN 1 ELSE 10 * Pow10(k - 1)

RECURSIVE Normalise(_, _)
\* one representative per decimal value: 1.50 and 1.5 are the same float
Normalise(n, d) ==
    IF d > 1 /\ n % 10 = 0 THEN Normalise(n \div 10, d \div 10)
    ELSE [num |-> n, den |-> d]

\* float(s) for a text of digits and dots: ValueError unless it has a digit
\* and at most one dot; any other character is a ValueError too (signs,
\* exponents, inf and nan do not occur in the texts of this model)
Float(s) ==
    LET dots == {k \in 1..Len(s) : s[k] = "."}
        digs == SelectSeq(s, LAMBDA c : c \in Digits)
    IN  IF \/ \E k \in 1..Len(s) : s[k] \notin Digits \cup {"."}
           \/ Cardinality(dots) > 1
           \/ digs = <<>>
        THEN Raises("ValueError")
        ELSE LET frac == IF dots = {} THEN 0
                         ELSE Len(s) - (CHOOSE k \in dots : TRUE)
             IN  Returns(Normalise(DigitsToInt(digs), Pow10(frac)))

\* TextractInvoiceParser._safe_float
_safe_float(val) ==
    LET r == Float(ReplaceComma(val))
    IN  IF r.exc # "" THEN None ELSE Some(r.val)

----------------------------------------------------------------------------
(* The block graph *)

Line(text, confidence) ==
    [Id |-> 0, BlockType |-> "LINE", Text |-> text, Confidence |-> confidence,
     RowIndex |-> 0, ColumnIndex |-> 0, Relationships |-> <<>>]

Word(id, text) ==
    [Id |-> id, BlockType |-> "WORD", Text |-> text, Confidence |-> None,
     RowIndex |-> 0, ColumnIndex |-> 0, Relationships |-> <<>>]

Cell(id, row, col, childIds) ==
    [Id |-> id, BlockType |-> "CELL", Text |-> None, Confidence |-> None,
     RowIndex |-> row, ColumnIndex |-> col,
     Relationships |-> <<[Type |-> "CHILD", Ids |-> childIds]>>]

Table(id, rels) ==
    [Id |-> id, BlockType |-> "TABLE", Text |-> None, Confidence |-> None,
     RowIndex |-> 0, ColumnIndex |-> 0, Relationships |-> rels]

\* dict.get(key, default) on an optional key
GetOr(opt, default) == IF opt = None THEN default ELSE opt[1]

----------------------------------------------------------------------------
(* TextractInvoiceParser *)

REQUIRED_FIELDS == <<"invoice_number", "issue_date", "supplier_name", "invoice_total">>

EmptyInvoice ==
    [invoice_number |-> None, issue_date |-> None, due_date |-> None,
     supplier_name |-> None, currency |-> None, invoice_total |-> None,
     line_items |-> <<>>, warnings |-> <<>>, quality_score |-> 0]

InvoiceLineItem(desc, qty, unit_price, total) ==
    [description |-> desc, qty |-> qty, unit_price |-> unit_price, total |-> total]

\* TextractInvoiceParser._extract_lines
InvoiceExtractLines(bs) ==
    LET ls == SelectSeq(bs, LAMBDA b : b.BlockType = "LINE")
    IN  [k \in 1..Len(ls) |->
            [text |-> Strip(GetOr(ls[k].Text, <<>>)),
             confidence |-> GetOr(ls[k].Confidence, 0)]]

SupplierPat ==
    <<Alt(<<<<"s", ".", "r", ".", "l", ".">>, <<"s", "p", "a">>, <<"l", "t", "d">>, <<"i", "n", "c">>, <<"m", "a", "r", "i", "l", "a", "b">>, <<"c", "o", "m", "p", "a", "n", "y">>, <<"s", "e", "d", "e">>>>, TRUE)>>

SupplierScope == 5

_find_supplier_name(ls) ==
    LET hits == {k \in 1..Len(ls) :
                    k <= SupplierScope /\ Matched(Search(SupplierPat, ls[k].text))}
    IN  IF hits = {} THEN None
        ELSE Some([value |-> ls[Min(hits)].text, confidence |-> ls[Min(hits)].confidence])

InvoiceNumberKw ==
    <<Alt(<<<<"n", "u", "m", "e", "r", "o", " ", "d", "o", "c", "u", "m", "e", "n", "t", "o">>, <<"f", "a", "t", "t", "u", "r", "a", " ", "n">>, <<"i", "n", "v", "o", "i", "c", "e", " ", "n", "u", "m", "b", "e", "r">>, <<"n", ".">>>>, TRUE)>>

InvoiceNumberPat == <<RepUnb(Digits, 3, FALSE)>>

_find_invoice_number(ls) ==
    LET hits == {k \in 1..Len(ls) :
                    /\ Matched(Search(InvoiceNumberKw, ls[k].text))
                    /\ Matched(Search(InvoiceNumberPat, ls[k].text))}
    IN  IF hits = {} THEN None
        ELSE LET t == ls[Min(hits)].text
             IN  Some([value |-> Group(t, Search(InvoiceNumberPat, t), 1),
                       confidence |-> ls[Min(hits)].confidence])

IssueDateKw == <<Alt(<<<<"d", "a", "t", "a", " ", "d", "o", "c", "u", "m", "e", "n", "t", "o">>, <<"i", "s", "s", "u", "e", " ", "d", "a", "t", "e">>>>, TRUE)>>
DueDateKw == <<Alt(<<<<"s", "c", "a", "d", "e", "n", "z", "a">>, <<"d", "u", "e", " ", "d", "a", "t", "e">>>>, TRUE)>>

DateSep == {"/", "-"}

InvoiceDatePat ==
    <<Rep(Digits, 1, 2, FALSE), Rep(DateSep, 1, 1, FALSE), Rep(Digits, 1, 2, FALSE),
      Rep(DateSep, 1, 1, FALSE), Rep(Digits, 2, 4, FALSE)>>

\* the text of group 1 of the date pattern in a line, None without a match
DateLiteral(t) ==
    LET m == Search(InvoiceDatePat, t)
    IN  IF Matched(m) THEN Some(SubSeq(t, m.start, m.ends[5] - 1)) ELSE None

RECURSIVE GatedDateScan(_, _, _)
\* the keyword-gated loop of _find_date from line k on: a ValueError of
\* strptime is passed over, any other exception leaves the function
GatedDateScan(ls, kw, k) ==
    IF k > Len(ls) THEN Returns(None)
    ELSE LET t == ls[k].text
             lit == DateLiteral(t)
         IN  IF Matched(Search(kw, t)) /\ lit # None
             THEN LET p == Strptime(lit[1])
                  IN  IF p.exc = "ValueError" THEN GatedDateScan(ls, kw, k + 1)
                      ELSE LET f == StrftimeNoFormat(p.val)
                           IN  IF f.exc = "ValueError" THEN GatedDateScan(ls, kw, k + 1)
                               ELSE IF f.exc # "" THEN Raises(f.exc)
                               ELSE Returns(Some([value |-> f.val,
                                                  confidence |-> ls[k].confidence]))
             ELSE GatedDateScan(ls, kw, k + 1)

\* the fallback loop of _find_date: the first line with a parseable date,
\* returned as a date object
FallbackDateScan(ls) ==
    LET hits == {k \in 1..Len(ls) :
                    /\ DateLiteral(ls[k].text) # None
                    /\ Strptime(DateLiteral(ls[k].text)[1]).exc = ""}
    IN  IF hits = {} THEN None
        ELSE Some([value |-> Strptime(DateLiteral(ls[Min(hits)].text)[1]).val,
                   confidence |-> ls[Min(hits)].confidence])

\* TextractInvoiceParser._find_date
_find_date(ls, kw, fallback) ==
    LET g == GatedDateScan(ls, kw, 1)
    IN  IF g.exc # "" \/ g.val # None THEN g
        ELSE IF fallback THEN Returns(FallbackDateScan(ls))
        ELSE Returns(None)

TotalKw == <<Alt(<<<<"t", "o", "t", "a", "l", "e">>, <<"i", "n", "v", "o", "i", "c", "e", " ", "t", "o", "t", "a", "l">>, <<"i", "m", "p", "o", "r", "t", "o">>>>, TRUE)>>

NumericChars == Digits \cup {".", ","}

TotalPat ==
    <<Rep({EuroSign, "$"}, 0, 1, FALSE), Rep(Whitespace, 0, 1, FALSE),
      RepUnb(NumericChars, 1, FALSE)>>

\* TextractInvoiceParser._find_total: the last line with the keyword and an amount
_find_total(ls) ==
    LET hits == {k \in 1..Len(ls) :
                    /\ Matched(Search(TotalKw, ls[k].text))
                    /\ Matched(Search(TotalPat, ls[k].text))}
    IN  IF hits = {} THEN None
        ELSE LET t == ls[Max(hits)].text
                 m == Search(TotalPat, t)
                 sym == Group(t, m, 1)
             IN  Some([value |-> _safe_float(Group(t, m, 3)),
                       currency |-> IF sym # <<>> THEN sym ELSE <<"E", "U", "R">>,
                       confidence |-> ls[Max(hits)].confidence])

RECURSIVE Flatten(_)
Flatten(ss) == IF ss = <<>> THEN <<>> ELSE Head(ss) \o Flatten(Tail(ss))

RECURSIVE Join(_)
\* " ".join(texts)
Join(ts) ==
    IF ts = <<>> THEN <<>>
    ELSE IF Len(ts) = 1 THEN ts[1]
    ELSE ts[1] \o <<" ">> \o Join(Tail(ts))

RECURSIVE SortAsc(_)
\* sorted(S) for a finite set of integers
SortAsc(S) == IF S = {} THEN <<>> ELSE <<Min(S)>> \o SortAsc(S \ {Min(S)})

HasBlock(bs, id) == \E k \in 1..Len(bs) : bs[k].Id = id

\* block_map[id]: of two blocks with one Id the dict keeps the later
BlockById(bs, id) == bs[Max({k \in 1..Len(bs) : bs[k].Id = id})]

\* the Ids of the CHILD relationships of a block, in order
ChildIds(b) ==
    LET rels == SelectSeq(b.Relationships, LAMBDA r : r.Type = "CHILD")
    IN  Flatten([k \in 1..Len(rels) |-> rels[k].Ids])

\* TextractInvoiceParser._get_text
_get_text(cell, bs) ==
    LET ids == ChildIds(cell)
        ws == SelectSeq([k \in 1..Len(ids) |-> BlockById(bs, ids[k])],
                        LAMBDA w : w.BlockType \in {"WORD", "SELECTION_ELEMENT"})
    IN  Strip(Join([k \in 1..Len(ws) |-> GetOr(ws[k].Text, <<>>)]))

\* the CELL children of a TABLE block, in the order their ids are listed
TableCells(t, bs) ==
    LET ids == ChildIds(t)
    IN  SelectSeq([k \in 1..Len(ids) |-> BlockById(bs, ids[k])],
                  LAMBDA c : c.BlockType = "CELL")

\* rows[r]: column index -> text, a later cell of the same row and column
\* replacing an earlier one
TableRow(cells, bs, r) ==
    LET cols == {cells[k].ColumnIndex : k \in {j \in 1..Len(cells) : cells[j].RowIndex = r}}
    IN  [c \in cols |->
            _get_text(cells[Max({k \in 1..Len(cells) :
                                    cells[k].RowIndex = r /\ cells[k].ColumnIndex = c})], bs)]

MinRowColumns == 4

\* row.get(col, "")
RowGet(row, col) == IF col \in DOMAIN row THEN row[col] ELSE <<>>

\* TableItems without sorted(): the rows in the order their first cell is
\* listed (a variant C7 must tell from TableItems)
TableItemsUnsorted(t, bs) ==
    LET cells == TableCells(t, bs)
        rs == {cells[k].RowIndex : k \in 1..Len(cells)}
        first(r) == Min({k \in 1..Len(cells) : cells[k].RowIndex = r})
        order == [i \in 1..Cardinality(rs) |->
                     CHOOSE r \in rs : Cardinality({q \in rs : first(q) < first(r)}) = i - 1]
        kept == SelectSeq(order,
                    LAMBDA r : Cardinality(DOMAIN TableRow(cells, bs, r)) >= MinRowColumns)
    IN  [k \in 1..Len(kept) |->
            LET row == TableRow(cells, bs, kept[k])
            IN  InvoiceLineItem(RowGet(row, 1), _safe_float(RowGet(row, 2)),
                                _safe_float(RowGet(row, 3)), _safe_float(RowGet(row, 4)))]

\* the line items of one TABLE block
TableItems(t, bs) ==
    LET cells == TableCells(t, bs)
        order == SortAsc({cells[k].RowIndex : k \in 1..Len(cells)})
        kept == SelectSeq(order,
                    LAMBDA r : Cardinality(DOMAIN TableRow(cells, bs, r)) >= MinRowColumns)
    IN  [k \in 1..Len(kept) |->
            LET row == TableRow(cells, bs, kept[k])
            IN  InvoiceLineItem(RowGet(row, 1), _safe_float(RowGet(row, 2)),
                                _safe_float(RowGet(row, 3)), _safe_float(RowGet(row, 4)))]

\* an id that block_map does not hold: block_map[cid] raises KeyError
Dangling(bs) ==
    \E k \in 1..Len(bs) :
        /\ bs[k].BlockType = "TABLE"
        /\ \E j \in 1..Len(ChildIds(bs[k])) :
              LET cid == ChildIds(bs[k])[j]
              IN  \/ ~HasBlock(bs, cid)
                  \/ /\ BlockById(bs, cid).BlockType = "CELL"
                     /\ \E w \in Range(ChildIds(BlockById(bs, cid))) : ~HasBlock(bs, w)

\* TextractInvoiceParser._extract_line_items
_extract_line_items(bs) ==
    IF Dangling(bs) THEN Raises("KeyError")
    ELSE LET ts == SelectSeq(bs, LAMBDA b : b.BlockType = "TABLE")
         IN  Returns(Flatten([k \in 1..Len(ts) |-> TableItems(ts[k], bs)]))

MissingField(f) == <<"Missing required field: ", f>>
LowCoverage == <<"Some key fields not extracted with high confidence">>

\* _collect_warnings with <= for < in the coverage test (a variant C3 must
\* tell from _collect_warnings)
_collect_warnings_le(inv, found) ==
    LET missing == SelectSeq(REQUIRED_FIELDS, LAMBDA f : inv[f] = None)
    IN  [k \in 1..Len(missing) |-> MissingField(missing[k])]
        \o (IF found <= Len(REQUIRED_FIELDS) THEN <<LowCoverage>> ELSE <<>>)

\* TextractInvoiceParser._collect_warnings
_collect_warnings(inv, found) ==
    LET missing == SelectSeq(REQUIRED_FIELDS, LAMBDA f : inv[f] = None)
    IN  [k \in 1..Len(missing) |-> MissingField(missing[k])]
        \o (IF found < Len(REQUIRED_FIELDS) THEN <<LowCoverage>> ELSE <<>>)

RECURSIVE Sum(_)
Sum(s) == IF s = <<>> THEN 0 ELSE Head(s) + Sum(Tail(s))

\* round(p / q) to the nearest integer, ties to even
RoundHalfEven(p, q) ==
    LET fl == p \div q
        r == p % q
    IN  IF 2 * r < q THEN fl
        ELSE IF 2 * r > q THEN fl + 1
        ELSE IF fl % 2 = 0 THEN fl ELSE fl + 1

\* TextractNormalizer.calc_quality_score, in hundredths; the confidences are
\* in tenths of a percent, so 100 * 0.4 * mean is 4 * Sum / n
calc_quality_score(textract_confidences, required_fields_found, total_required) ==
    LET n == IF textract_confidences = <<>> THEN 1 ELSE Len(textract_confidences)
        s == Sum(textract_confidences)
        t == IF total_required = 0 THEN 1 ELSE total_required
        f == IF total_required = 0 THEN 0 ELSE required_fields_found
        validation == IF total_required # 0 /\ required_fields_found = total_required
                      THEN 20 ELSE 10
    IN  RoundHalfEven(4 * s * t + 40 * f * n + validation * n * t, n * t)

----------------------------------------------------------------------------
(* Invoice inputs *)

MaxLines == 2
MaxRows == 3

\* LINE texts: supplier and invoice number, dates (keyword-gated and bare,
\* valid and not), totals (parseable and not, with and without a symbol),
\* padded text
InvoiceTexts ==
    { <<"S", "P", "A", " ", "N", ".", " ", "1", "2", "3">>,
      <<"D", "a", "t", "a", " ", "d", "o", "c", "u", "m", "e", "n", "t", "o", " ", "1", "5", "/", "0", "3", "/", "2", "0", "2", "4">>,
      <<"I", "s", "s", "u", "e", " ", "d", "a", "t", "e", " ", "3", "1", "/", "0", "2", "/", "2", "0", "2", "4">>,
      <<"S", "c", "a", "d", "e", "n", "z", "a", " ", "3", "0", "/", "0", "4", "/", "2", "0", "2", "4">>,
      <<"1", "5", "/", "0", "3", "/", "2", "0", "2", "4">>,
      <<"T", "O", "T", "A", "L", "E", " ", EuroSign, " ", "1", ".", "2", "3", "4", ",", "5", "6">>,
      <<"T", "o", "t", "a", "l", "e", " ", "1", "0", "0", " ", "2", "9", "/", "0", "2", "/", "2", "0", "2", "4">>,
      <<" ", "I", "m", "p", "o", "r", "t", "o", " ", "$", "1", "2", ",", "5", "0", " ">> }

\* Confidence as Textract reports it, 0 to 100 percent, in tenths
Confidences == {0, 982}

\* a LINE block may lack Text and Confidence
InvoiceLineBlocks ==
    {Line(Some(t), Some(c)) : t \in InvoiceTexts, c \in Confidences}
        \cup {Line(None, None)}

LineDocs == UNION {[1..n -> InvoiceLineBlocks] : n \in 0..MaxLines}

\* a document of seven lines whose only supplier line is the sixth
LongDoc ==
    [k \in 1..7 |-> Line(Some(IF k = 6 THEN <<"M", "a", "r", "i", "l", "a", "b", " ", "S", ".", "r", ".", "l", ".">> ELSE <<"F", "a", "t", "t", "u", "r", "a", " ", "n", " ", "4", "5">>),
                         Some(982))]

\* which columns each row of a table has cells for
ColumnSets == {{}, {1, 2, 3}, {1, 2, 3, 4}, {2, 3, 4, 5}, {1, 2, 3, 4, 5}}

Layouts == [1..MaxRows -> ColumnSets]

\* how the table lists its cells
Shapes == {"asc", "desc", "bycol", "dup", "split", "two", "dangling"}

CellId(r, c) == 10 * r + c
WordId(r, c) == 100 + 10 * r + c

CellText(r, c) ==
    IF c = 1 THEN <<DigitChars[r + 1]>>
    ELSE IF c = 3 THEN <<DigitChars[r + 1], ",", "5">>
    ELSE <<DigitChars[r + 1], DigitChars[c + 1]>>

CellBlock(r, c) ==
    IF c = 1 THEN Cell(CellId(r, c), r, c, <<WordId(r, c), WordId(r, c) + 100>>)
    ELSE Cell(CellId(r, c), r, c, <<WordId(r, c)>>)

WordBlocks(r, c) ==
    IF c = 1 THEN <<Word(WordId(r, c), Some(<<"i", "t", "e", "m">>)), Word(WordId(r, c) + 100, Some(CellText(r, c)))>>
    ELSE <<Word(WordId(r, c), Some(CellText(r, c)))>>

Reverse(s) == [k \in 1..Len(s) |-> s[Len(s) + 1 - k]]

TableDoc(layout, shape) ==
    LET ids == SortAsc({CellId(p[1], p[2]) :
                          p \in {q \in (DOMAIN layout) \X (1..5) : q[2] \in layout[q[1]]}})
        byCol == SortAsc({10 * (i % 10) + (i \div 10) : i \in Range(ids)})
        listed == IF shape = "desc" THEN Reverse(ids)
                  ELSE IF shape = "bycol"
                       THEN [k \in 1..Len(byCol) |-> 10 * (byCol[k] % 10) + (byCol[k] \div 10)]
                  ELSE IF shape = "dup" THEN ids \o <<91>>
                  ELSE IF shape = "dangling" THEN ids \o <<99>>
                  ELSE ids
        half == Len(listed) \div 2
        rels == IF shape = "split"
                THEN <<[Type |-> "CHILD", Ids |-> SubSeq(listed, half + 1, Len(listed)) \o <<901>>],
                       [Type |-> "MERGED_CELL", Ids |-> <<92>>],
                       [Type |-> "CHILD", Ids |-> SubSeq(listed, 1, half)]>>
                ELSE <<[Type |-> "CHILD", Ids |-> listed]>>
        cells == [k \in 1..Len(ids) |-> CellBlock(ids[k] \div 10, ids[k] % 10)]
        words == Flatten([k \in 1..Len(ids) |-> WordBlocks(ids[k] \div 10, ids[k] % 10)])
        extra == <<Cell(91, 1, 1, <<901>>), Cell(92, 1, 4, <<901>>), Word(901, Some(<<"d", "u", "p">>))>>
        second == <<Table(2, <<[Type |-> "CHILD", Ids |-> <<84, 83, 82, 81>>]>>),
                    Cell(81, 7, 1, <<901>>), Cell(82, 7, 2, <<>>),
                    Cell(83, 7, 3, <<901>>), Cell(84, 7, 4, <<>>)>>
    IN  <<Line(Some(<<"T", "o", "t", "a", "l", "e", " ", "1", "0", "0">>), Some(982)), Table(1, rels)>> \o cells \o words \o extra
            \o (IF shape = "two" THEN second ELSE <<>>)

TableDocs == {TableDoc(l, s) : l \in Layouts, s \in Shapes}

InvoiceDocs == LineDocs \cup {LongDoc} \cup TableDocs

----------------------------------------------------------------------------
(* TextractNormalizer.normalize_invoice: TextractInvoiceParser.__init__ and *)
(* _parse_data, one action per extractor call                              *)

EmptyPrescription ==
    [prescription_date |-> None, prescriber_name |-> None, prescriber_id |-> None,
     language |-> "it", medications |-> <<>>, notes |-> None, warnings |-> <<>>,
     quality_score |-> 0]

rxVars == <<prescription, current_med, idx>>

Init ==
    /\ blocks \in InvoiceDocs
    /\ pc = "extract_lines"
    /\ lines = <<>>
    /\ invoice = EmptyInvoice
    /\ confidences = <<>>
    /\ found_fields = 0
    /\ prescription = EmptyPrescription
    /\ current_med = None
    /\ idx = 0
    /\ exc = ""

\* self.lines = self._extract_lines(); self.invoice = Invoice()
ExtractLines ==
    /\ pc = "extract_lines"
    /\ lines' = InvoiceExtractLines(blocks)
    /\ pc' = "supplier"
    /\ UNCHANGED <<blocks, invoice, confidences, found_fields, rxVars, exc>>

FindSupplier ==
    /\ pc = "supplier"
    /\ LET supplier == _find_supplier_name(lines)
       IN  IF supplier # None
           THEN /\ invoice' = [invoice EXCEPT !.supplier_name = Some(supplier[1].value)]
                /\ confidences' = Append(confidences, supplier[1].confidence)
                /\ found_fields' = found_fields + 1
           ELSE UNCHANGED <<invoice, confidences, found_fields>>
    /\ pc' = "invoice_number"
    /\ UNCHANGED <<blocks, lines, rxVars, exc>>

FindInvoiceNumber ==
    /\ pc = "invoice_number"
    /\ LET inv_num == _find_invoice_number(lines)
       IN  IF inv_num # None
           THEN /\ invoice' = [invoice EXCEPT !.invoice_number = Some(inv_num[1].value)]
                /\ confidences' = Append(confidences, inv_num[1].confidence)
                /\ found_fields' = found_fields + 1
           ELSE UNCHANGED <<invoice, confidences, found_fields>>
    /\ pc' = "issue_date"
    /\ UNCHANGED <<blocks, lines, rxVars, exc>>

FindIssueDate ==
    /\ pc = "issue_date"
    /\ LET issue_date == _find_date(lines, IssueDateKw, TRUE)
       IN  IF issue_date.exc # ""
           THEN /\ pc' = "raised"
                /\ exc' = issue_date.exc
                /\ UNCHANGED <<invoice, confidences, found_fields>>
           ELSE /\ pc' = "due_date"
                /\ exc' = exc
                /\ IF issue_date.val # None
                   THEN /\ invoice' = [invoice EXCEPT !.issue_date = Some(issue_date.val[1].value)]
                        /\ confidences' = Append(confidences, issue_date.val[1].confidence)
                        /\ found_fields' = found_fields + 1
                   ELSE UNCHANGED <<invoice, confidences, found_fields>>
    /\ UNCHANGED <<blocks, lines, rxVars>>

FindDueDate ==
    /\ pc = "due_date"
    /\ LET due_date == _find_date(lines, DueDateKw, FALSE)
       IN  IF due_date.exc # ""
           THEN /\ pc' = "raised"
                /\ exc' = due_date.exc
                /\ UNCHANGED <<invoice, confidences>>
           ELSE /\ pc' = "total"
                /\ exc' = exc
                /\ IF due_date.val # None
                   THEN /\ invoice' = [invoice EXCEPT !.due_date = Some(due_date.val[1].value)]
                        /\ confidences' = Append(confidences, due_date.val[1].confidence)
                   ELSE UNCHANGED <<invoice, confidences>>
    /\ UNCHANGED <<blocks, lines, found_fields, rxVars>>

FindTotal ==
    /\ pc = "total"
    /\ LET total == _find_total(lines)
       IN  IF total # None
           THEN /\ invoice' = [invoice EXCEPT !.invoice_total = total[1].value,
                                              !.currency = Some(total[1].currency)]
                /\ confidences' = Append(confidences, total[1].confidence)
                /\ found_fields' = found_fields + 1
           ELSE UNCHANGED <<invoice, confidences, found_fields>>
    /\ pc' = "line_items"
    /\ UNCHANGED <<blocks, lines, rxVars, exc>>

ExtractLineItems ==
    /\ pc = "line_items"
    /\ LET items == _extract_line_items(blocks)
       IN  IF items.exc # ""
           THEN /\ pc' = "raised"
                /\ exc' = items.exc
                /\ invoice' = invoice
           ELSE /\ pc' = "quality_score"
                /\ exc' = exc
                /\ invoice' = [invoice EXCEPT !.line_items = items.val]
    /\ UNCHANGED <<blocks, lines, confidences, found_fields, rxVars>>

CalcQualityScore ==
    /\ pc = "quality_score"
    /\ invoice' = [invoice EXCEPT !.quality_score =
                      calc_quality_score(confidences, found_fields, Len(REQUIRED_FIELDS))]
    /\ pc' = "warnings"
    /\ UNCHANGED <<blocks, lines, confidences, found_fields, rxVars, exc>>

\* the last statement of _parse_data; normalize_invoice returns self.invoice
CollectWarnings ==
    /\ pc = "warnings"
    /\ invoice' = [invoice EXCEPT !.warnings = _collect_warnings(invoice, found_fields)]
    /\ pc' = "done"
    /\ UNCHANGED <<blocks, lines, confidences, found_fields, rxVars, exc>>

Next ==
    \/ ExtractLines
    \/ FindSupplier
    \/ FindInvoiceNumber
    \/ FindIssueDate
    \/ FindDueDate
    \/ FindTotal
    \/ ExtractLineItems
    \/ CalcQualityScore
    \/ CollectWarnings

Spec == Init /\ [][Next]_vars

----------------------------------------------------------------------------
(* TextractPrescriptionParser *)

PrescriptionMedication(name) ==
    [drug_name |-> name, dosage_text |-> None, frequency_text |-> None,
     duration_days |-> None, quantity |-> None]

\* TextractPrescriptionParser._extract_lines: the raw Text of the LINE
\* blocks that have one
PrescriptionExtractLines(bs) ==
    LET ls == SelectSeq(bs, LAMBDA b : b.BlockType = "LINE" /\ b.Text # None)
    IN  [k \in 1..Len(ls) |-> ls[k].Text[1]]

RxDateSep == {"/", "-", "."}
AsciiLetters == UpperSet \cup Range(LowerChars)

NumericDatePat ==
    <<Rep(Digits, 1, 2, FALSE), Rep(RxDateSep, 1, 1, FALSE), Rep(Digits, 1, 2, FALSE),
      Rep(RxDateSep, 1, 1, FALSE), Rep(Digits, 2, 4, FALSE)>>

MonthNameDatePat ==
    <<Rep(Digits, 1, 2, FALSE), RepUnb(Whitespace, 1, FALSE), RepUnb(AsciiLetters, 1, FALSE),
      RepUnb(Whitespace, 1, FALSE), Rep(Digits, 2, 4, FALSE)>>

month_map ==
    <<<<"g", "e", "n", "n", "a", "i", "o">>, <<"f", "e", "b", "b", "r", "a", "i", "o">>, <<"m", "a", "r", "z", "o">>, <<"a", "p", "r", "i", "l", "e">>, <<"m", "a", "g", "g", "i", "o">>, <<"g", "i", "u", "g", "n", "o">>,
      <<"l", "u", "g", "l", "i", "o">>, <<"a", "g", "o", "s", "t", "o">>, <<"s", "e", "t", "t", "e", "m", "b", "r", "e">>, <<"o", "t", "t", "o", "b", "r", "e">>, <<"n", "o", "v", "e", "m", "b", "r", "e">>, <<"d", "i", "c", "e", "m", "b", "r", "e">>>>

\* month_map.get(name): 0 stands for None
MonthOf(name) ==
    IF \E k \in 1..Len(month_map) : month_map[k] = name
    THEN CHOOSE k \in 1..Len(month_map) : month_map[k] = name
    ELSE 0

\* int(s): ValueError unless s is decimal digits
IntOf(s) ==
    IF s # <<>> /\ \A k \in 1..Len(s) : s[k] \in Digits
    THEN Returns(DigitsToInt(s)) ELSE Raises("ValueError")

CenturyPivot == 50

\* year += 2000 if year < 50 else 1900, for year < 100
InferCentury(year) ==
    IF year < 100 THEN (IF year < CenturyPivot THEN year + 2000 ELSE year + 1900)
    ELSE year

\* date(year, month, day).strftime(): the outcome of the two calls
DateThenStrftime(y, m, d) ==
    LET dt == DateCtor(y, m, d)
    IN  IF dt.exc # "" THEN dt ELSE StrftimeNoFormat(dt.val)

\* the body of the try block of _parse_date for one matched pattern:
\* Returns(Some(v)) is `return v`, Returns(None) leaves the try block
\* without returning, Raises(e) is the exception the try block raised
TryDatePattern(text, pat) ==
    LET m == Search(pat, text)
        g1 == Group(text, m, 1)
        g2 == Group(text, m, 3)
        g3 == Group(text, m, 5)
    IN  IF \E k \in 1..Len(text) : text[k] \in RxDateSep
        THEN IF IntOf(g1).exc # "" THEN IntOf(g1)
             ELSE IF IntOf(g2).exc # "" THEN IntOf(g2)
             ELSE IF IntOf(g3).exc # "" THEN IntOf(g3)
             ELSE LET r == DateThenStrftime(InferCentury(IntOf(g3).val), IntOf(g2).val, IntOf(g1).val)
                  IN  IF r.exc # "" THEN r ELSE Returns(Some(r.val))
        ELSE IF IntOf(g1).exc # "" THEN IntOf(g1)
             ELSE IF IntOf(g3).exc # "" THEN IntOf(g3)
             ELSE LET month == MonthOf(LowerText(g2))
                  IN  IF month = 0 THEN Returns(None)
                      ELSE LET r == DateThenStrftime(IntOf(g3).val, month, IntOf(g1).val)
                           IN  IF r.exc # "" THEN r ELSE Returns(Some(r.val))

RECURSIVE ParseDateFrom(_, _, _)
\* the loop of _parse_date over its patterns: ValueError and TypeError are
\* caught and the loop goes on
ParseDateFrom(text, pats, k) ==
    IF k > Len(pats) THEN Returns(None)
    ELSE IF ~Matched(Search(pats[k], text)) THEN ParseDateFrom(text, pats, k + 1)
    ELSE LET r == TryDatePattern(text, pats[k])
         IN  IF r.exc \in {"ValueError", "TypeError"} THEN ParseDateFrom(text, pats, k + 1)
             ELSE IF r.exc # "" THEN r
             ELSE IF r.val # None THEN r
             ELSE ParseDateFrom(text, pats, k + 1)

\* TextractPrescriptionParser._parse_date
_parse_date(text) == ParseDateFrom(text, <<NumericDatePat, MonthNameDatePat>>, 1)

Ws0 == RepUnb(Whitespace, 0, FALSE)
Number == RepUnb(Digits, 1, FALSE)
Colon == Rep({":"}, 0, 1, FALSE)

\* the patterns of _parse_quantity (re.IGNORECASE) and the atom of group 1
QuantityPats ==
    <<[pat |-> <<Lit(<<"q", "t", "a">>, TRUE), Ws0, Colon, Ws0, Number>>, group |-> 5],
      [pat |-> <<Lit(<<"n", ".">>, TRUE), Ws0, Number>>, group |-> 3],
      [pat |-> <<Lit(<<"q", "u", "a", "n", "t", "i", "t">>, TRUE), Rep({AGrave, "a"}, 1, 1, TRUE), Ws0, Colon, Ws0, Number>>,
       group |-> 6],
      [pat |-> <<Number, Ws0,
                 Alt(<<<<"c", "o", "m", "p", "r", "e", "s", "s", "e">>, <<"c", "p">>, <<"f", "i", "a", "l", "e">>, <<"f", "l">>, <<"m", "l">>, <<"g">>, <<"m", "g">>, <<Micro, "g">>>>, TRUE)>>,
       group |-> 1]>>

\* the patterns of _parse_duration (re.IGNORECASE)
DurationPats ==
    <<[pat |-> <<Lit(<<"p", "e", "r">>, TRUE), Ws0, Number, Ws0, Lit(<<"g", "i", "o", "r", "n", "i">>, TRUE)>>, group |-> 3],
      [pat |-> <<Number, Ws0, Lit(<<"g", "i", "o", "r", "n", "i">>, TRUE)>>, group |-> 1],
      [pat |-> <<Lit(<<"d", "u", "r", "a", "t", "a">>, TRUE), Ws0, Colon, Ws0, Number, Ws0, Lit(<<"g">>, TRUE)>>, group |-> 5]>>

\* the patterns of _parse_frequency (re.IGNORECASE)
FrequencyPats ==
    <<[pat |-> <<Number, Ws0, Lit(<<"v", "o", "l", "t", "e">>, TRUE), Ws0, Lit(<<"a", "l">>, TRUE), Ws0, Lit(<<"g", "i", "o", "r", "n", "o">>, TRUE)>>,
       group |-> 1],
      [pat |-> <<Number, Ws0, Rep({"x", "X"}, 1, 1, TRUE), Ws0, Lit(<<"d", "i", "e">>, TRUE)>>, group |-> 1],
      [pat |-> <<Lit(<<"o", "g", "n", "i">>, TRUE), Ws0, Number, Ws0, Lit(<<"o", "r", "e">>, TRUE)>>, group |-> 3],
      [pat |-> <<Number, Ws0, Rep({"c", "p"}, 1, 1, TRUE), Ws0, Lit(<<"a", "l">>, TRUE), Ws0, Lit(<<"d", IGrave>>, TRUE)>>,
       group |-> 1]>>

Units == Alt(<<<<"m", "g">>, <<"m", "l">>, <<"g">>, <<Micro, "g">>>>, TRUE)
Amount == <<Number, Rep({".", ","}, 0, 1, FALSE), RepUnb(Digits, 0, FALSE)>>

\* the patterns of _parse_dosage (re.IGNORECASE): first is the first atom of
\* group 1 (the amount, three atoms), group 2 (the unit) is the last atom
DosagePats ==
    <<[pat |-> Amount \o <<Ws0, Units>>, first |-> 1],
      [pat |-> <<Lit(<<"d", "o", "s", "e">>, TRUE), Ws0, Colon, Ws0>> \o Amount \o <<Ws0, Units>>, first |-> 5]>>

\* the first pattern of the list that matches the text, 0 if none does
FirstPattern(pats, text) ==
    LET hits == {k \in 1..Len(pats) : Matched(Search(pats[k].pat, text))}
    IN  IF hits = {} THEN 0 ELSE Min(hits)

\* group 1 of the first pattern that matches, as int()
FirstNumber(pats, text) ==
    LET k == FirstPattern(pats, text)
    IN  IF k = 0 THEN None
        ELSE Some(DigitsToInt(Group(text, Search(pats[k].pat, text), pats[k].group)))

\* TextractPrescriptionParser._parse_quantity
_parse_quantity(text) == FirstNumber(QuantityPats, text)

\* TextractPrescriptionParser._parse_duration
_parse_duration(text) == FirstNumber(DurationPats, text)

\* TextractPrescriptionParser._parse_frequency
_parse_frequency(text) ==
    LET k == FirstPattern(FrequencyPats, text)
    IN  IF k = 0 THEN None
        ELSE Some(Group(text, Search(FrequencyPats[k].pat, text), FrequencyPats[k].group)
                  \o <<" ", "v", "o", "l", "t", "e", " ", "a", "l", " ", "g", "i", "o", "r", "n", "o">>)

\* TextractPrescriptionParser._parse_dosage
_parse_dosage(text) ==
    LET k == FirstPattern(DosagePats, text)
    IN  IF k = 0 THEN None
        ELSE LET p == DosagePats[k]
                 m == Search(p.pat, text)
                 from == IF p.first = 1 THEN m.start ELSE m.ends[p.first - 1]
                 amount == SubSeq(text, from, m.ends[p.first + 2] - 1)
                 unit == Group(text, m, Len(p.pat))
             IN  Some(ReplaceComma(amount) \o <<" ">> \o unit)

PrescriberTerms == <<<<"d", "o", "t", "t">>, <<"d", "r", ".">>, <<"m", "e", "d", "i", "c", "o">>, <<"f", "a", "r", "m", "a", "c", "i", "s", "t", "a">>>>
IdTerms == <<<<"c", "o", "d", "i", "c", "e", " ", "f", "i", "s", "c", "a", "l", "e">>, <<"c", "f", ":">>, <<"i", "d">>>>
FormTerms == <<<<"c", "o", "m", "p", "r", "e", "s", "s", "e">>, <<"c", "a", "p", "s", "u", "l", "e">>, <<"f", "i", "a", "l", "e">>, <<"c", "r", "e", "m", "a">>, <<"p", "o", "m", "a", "t", "a">>>>

\* any(term in line.lower() for term in terms)
AnyTerm(terms, line) == \E k \in 1..Len(terms) : Contains(LowerText(line), terms[k])

IdMinLen == 11
IdMaxLen == 16

IdPat == <<Rep(UpperSet \cup Digits, IdMinLen, IdMaxLen, FALSE)>>

\* the header test of the medication loop
IsHeader(line) == IsUpper(line) \/ AnyTerm(FormTerms, line)

\* `not x` for an Optional[str] and for an Optional[int]
NotText(o) == o = None \/ o[1] = <<>>
NotInt(o) == o = None \/ o[1] = 0

\* the continuation branch of the medication loop for one line
FillMedication(med, line) ==
    LET m1 == IF NotText(med.dosage_text)
              THEN [med EXCEPT !.dosage_text = _parse_dosage(line)] ELSE med
        m2 == IF NotText(m1.frequency_text)
              THEN [m1 EXCEPT !.frequency_text = _parse_frequency(line)] ELSE m1
        m3 == IF NotInt(m2.duration_days)
              THEN [m2 EXCEPT !.duration_days = _parse_duration(line)] ELSE m2
    IN  IF NotInt(m3.quantity)
        THEN [m3 EXCEPT !.quantity = _parse_quantity(line)] ELSE m3

\* TextractPrescriptionParser._calculate_quality_score, in hundredths
_calculate_quality_score(p) ==
    LET score ==
            (IF ~NotText(p.prescription_date) THEN 1 ELSE 0)
          + (IF ~NotText(p.prescriber_name) THEN 1 ELSE 0)
          + (IF ~NotText(p.prescriber_id) THEN 1 ELSE 0)
          + (IF p.medications # <<>> THEN 1 ELSE 0)
          + (IF \E k \in 1..Len(p.medications) : ~NotText(p.medications[k].drug_name)
             THEN 1 ELSE 0)
    IN  IF 20 * score < 100 THEN 20 * score ELSE 100

----------------------------------------------------------------------------
(* Prescription inputs *)

MaxRxLines == 3

\* LINE texts: headers, continuation lines for each attribute (one with a
\* zero), dates in both grammars, prescriber name and id
PrescriptionTexts ==
    { <<"A", "M", "O", "X", "I", "C", "I", "L", "L", "I", "N", "A">>,
      <<"A", "C", "I", "C", "L", "O", "V", "I", "R", " ", "C", "R", "E", "M", "A">>,
      <<"5", "0", "0", " ", "m", "g">>,
      <<"2", " ", "v", "o", "l", "t", "e", " ", "a", "l", " ", "g", "i", "o", "r", "n", "o">>,
      <<"p", "e", "r", " ", "7", " ", "g", "i", "o", "r", "n", "i">>,
      <<"p", "e", "r", " ", "0", " ", "g", "i", "o", "r", "n", "i">>,
      <<"Q", "t", "a", ":", " ", "2", "0">>,
      <<"D", "a", "t", "a", " ", "1", "5", " ", "m", "a", "r", "z", "o", " ", "2", "0", "2", "4">>,
      <<"D", "a", "t", "a", ":", " ", "1", "5", "/", "0", "3", "/", "2", "4">>,
      <<"D", "o", "t", "t", ".", " ", "R", "o", "s", "s", "i">>,
      <<"C", "o", "d", "i", "c", "e", " ", "F", "i", "s", "c", "a", "l", "e", ":", " ", "R", "S", "S", "M", "R", "A", "8", "0", "A", "0", "1", "H", "5", "0", "1", "U">> }

PrescriptionLineBlocks ==
    {Line(Some(t), Some(982)) : t \in PrescriptionTexts} \cup {Line(None, None)}

\* the medication-grouping scenario
ScenarioDoc ==
    <<Line(Some(<<"A", "M", "O", "X", "I", "C", "I", "L", "L", "I", "N", "A">>), Some(982)),
      Line(Some(<<"5", "0", "0", " ", "m", "g">>), Some(982)),
      Line(Some(<<"2", " ", "v", "o", "l", "t", "e", " ", "a", "l", " ", "g", "i", "o", "r", "n", "o">>), Some(982)),
      Line(Some(<<"p", "e", "r", " ", "7", " ", "g", "i", "o", "r", "n", "i">>), Some(982)),
      Line(Some(<<"A", "C", "I", "C", "L", "O", "V", "I", "R", " ", "C", "R", "E", "M", "A">>), Some(982)),
      Line(Some(<<"a", "p", "p", "l", "i", "c", "a", "r", "e", " ", "2", " ", "v", "o", "l", "t", "e", " ", "a", "l", " ", "d", IGrave>>), Some(982))>>

\* the bare date text, without the keyword that gates the date search
BareDateDoc == <<Line(Some(<<"1", "5", " ", "m", "a", "r", "z", "o", " ", "2", "0", "2", "4">>), Some(982))>>

PrescriptionDocs ==
    UNION {[1..n -> PrescriptionLineBlocks] : n \in 0..MaxRxLines}
        \cup {ScenarioDoc, BareDateDoc}

----------------------------------------------------------------------------
(* TextractNormalizer.normalize_prescription: __init__ and _parse_data of  *)
(* TextractPrescriptionParser, one action per loop of _parse_data and one  *)
(* per line of the medication loop                                         *)

invVars == <<invoice, confidences, found_fields>>

InitRx ==
    /\ blocks \in PrescriptionDocs
    /\ pc = "rx_extract_lines"
    /\ lines = <<>>
    /\ invoice = EmptyInvoice
    /\ confidences = <<>>
    /\ found_fields = 0
    /\ prescription = EmptyPrescription
    /\ current_med = None
    /\ idx = 0
    /\ exc = ""

\* self.lines = self._extract_lines(); self.prescription = Prescription()
RxExtractLines ==
    /\ pc = "rx_extract_lines"
    /\ lines' = PrescriptionExtractLines(blocks)
    /\ pc' = "rx_date"
    /\ UNCHANGED <<blocks, invVars, rxVars, exc>>

RECURSIVE DateLoop(_, _)
\* the date loop of _parse_data from line k on: the first truthy
\* _parse_date of a line that contains 'data'
DateLoop(ls, k) ==
    IF k > Len(ls) THEN Returns(None)
    ELSE IF Contains(LowerText(ls[k]), <<"d", "a", "t", "a">>)
    THEN LET date_obj == _parse_date(ls[k])
         IN  IF date_obj.exc # "" THEN date_obj
             ELSE IF ~NotText(date_obj.val) THEN date_obj
             ELSE DateLoop(ls, k + 1)
    ELSE DateLoop(ls, k + 1)

RxFindDate ==
    /\ pc = "rx_date"
    /\ LET date_obj == DateLoop(lines, 1)
       IN  IF date_obj.exc # ""
           THEN /\ pc' = "raised"
                /\ exc' = date_obj.exc
                /\ UNCHANGED prescription
           ELSE /\ pc' = "rx_prescriber"
                /\ exc' = exc
                /\ prescription' = [prescription EXCEPT !.prescription_date = date_obj.val]
    /\ UNCHANGED <<blocks, lines, invVars, current_med, idx>>

\* the last line with a prescriber term
FindPrescriberName(ls) ==
    LET hits == {k \in 1..Len(ls) : AnyTerm(PrescriberTerms, ls[k])}
    IN  IF hits = {} THEN None ELSE Some(ls[Max(hits)])

\* the id of the last line with an id term and an id-shaped run
FindPrescriberId(ls) ==
    LET hits == {k \in 1..Len(ls) :
                    AnyTerm(IdTerms, ls[k]) /\ Matched(Search(IdPat, ls[k]))}
    IN  IF hits = {} THEN None
        ELSE Some(Group(ls[Max(hits)], Search(IdPat, ls[Max(hits)]), 1))

RxFindPrescriber ==
    /\ pc = "rx_prescriber"
    /\ prescription' = [prescription EXCEPT
                           !.prescriber_name = FindPrescriberName(lines),
                           !.prescriber_id = FindPrescriberId(lines)]
    /\ current_med' = None
    /\ idx' = 1
    /\ pc' = "rx_medications"
    /\ UNCHANGED <<blocks, lines, invVars, exc>>

\* one iteration of `for line in self.lines` of the medication loop
RxMedicationLine ==
    /\ pc = "rx_medications"
    /\ idx <= Len(lines)
    /\ IF IsHeader(lines[idx])
       THEN /\ prescription' =
                  IF current_med # None
                  THEN [prescription EXCEPT !.medications = Append(@, current_med[1])]
                  ELSE prescription
            /\ current_med' = Some(PrescriptionMedication(Some(lines[idx])))
       ELSE /\ current_med' =
                  IF current_med # None
                  THEN Some(FillMedication(current_med[1], lines[idx]))
                  ELSE current_med
            /\ UNCHANGED prescription
    /\ idx' = idx + 1
    /\ UNCHANGED <<blocks, pc, lines, invVars, exc>>

\* after the loop: if current_med: medications.append(current_med)
RxAppendLast ==
    /\ pc = "rx_medications"
    /\ idx > Len(lines)
    /\ prescription' =
          IF current_med # None
          THEN [prescription EXCEPT !.medications = Append(@, current_med[1])]
          ELSE prescription
    /\ pc' = "rx_notes"
    /\ UNCHANGED <<blocks, lines, invVars, current_med, idx, exc>>

\* the lines that are neither inside the date string nor equal to the
\* prescriber name, the prescriber id or a drug name, joined by spaces
CollectNotes(p, ls) ==
    LET kept == SelectSeq(ls, LAMBDA line :
                    /\ NotText(p.prescription_date)
                          \/ ~Contains(p.prescription_date[1], line)
                    /\ NotText(p.prescriber_name) \/ line # p.prescriber_name[1]
                    /\ NotText(p.prescriber_id) \/ line # p.prescriber_id[1]
                    /\ ~\E k \in 1..Len(p.medications) :
                          /\ ~NotText(p.medications[k].drug_name)
                          /\ line = p.medications[k].drug_name[1])
    IN  IF kept = <<>> THEN None ELSE Some(Join(kept))

RxNotes ==
    /\ pc = "rx_notes"
    /\ prescription' = [prescription EXCEPT !.notes = CollectNotes(prescription, lines)]
    /\ pc' = "rx_warnings"
    /\ UNCHANGED <<blocks, lines, invVars, current_med, idx, exc>>

RxWarningsOf(p) ==
    (IF NotText(p.prescription_date) THEN <<"Data della prescrizione non trovata">> ELSE <<>>)
    \o (IF NotText(p.prescriber_name) THEN <<"Nome del prescrittore non trovato">> ELSE <<>>)
    \o (IF p.medications = <<>> THEN <<"Nessun farmaco trovato nella prescrizione">> ELSE <<>>)

RxWarnings ==
    /\ pc = "rx_warnings"
    /\ prescription' = [prescription EXCEPT !.warnings = @ \o RxWarningsOf(prescription)]
    /\ pc' = "rx_quality_score"
    /\ UNCHANGED <<blocks, lines, invVars, current_med, idx, exc>>

\* the last statement of _parse_data; normalize_prescription returns
\* self.prescription
RxQualityScore ==
    /\ pc = "rx_quality_score"
    /\ prescription' = [prescription EXCEPT
                           !.quality_score = _calculate_quality_score(prescription)]
    /\ pc' = "done"
    /\ UNCHANGED <<blocks, lines, invVars, current_med, idx, exc>>

NextRx ==
    \/ RxExtractLines
    \/ RxFindDate
    \/ RxFindPrescriber
    \/ RxMedicationLine
    \/ RxAppendLast
    \/ RxNotes
    \/ RxWarnings
    \/ RxQualityScore

SpecRx == InitRx /\ [][NextRx]_vars

----------------------------------------------------------------------------
(* Properties *)

RECURSIVE IntToDigits(_)
IntToDigits(n) ==
    IF n < 10 THEN <<DigitChars[n + 1]>>
    ELSE IntToDigits(n \div 10) \o <<DigitChars[(n % 10) + 1]>>

RECURSIVE ZeroPad(_, _)
ZeroPad(s, width) == IF Len(s) >= width THEN s ELSE ZeroPad(<<"0">> \o s, width)

\* the ISO date string YYYY-MM-DD
IsoDate(y, m, d) ==
    ZeroPad(IntToDigits(y), 4) \o <<"-">> \o ZeroPad(IntToDigits(m), 2)
        \o <<"-">> \o ZeroPad(IntToDigits(d), 2)

Returned == pc = "done"
Terminated == pc \in {"done", "raised"}

\* C1: the quality_score of every record normalize_invoice and
\* normalize_prescription return lies in [0, 1] (0 to 100 hundredths),
\* whatever the line texts and the LINE confidences (0 to 100) are.
C1_QualityScoreInUnitRange ==
    Returned =>
        /\ invoice.quality_score >= 0 /\ invoice.quality_score <= 100
        /\ prescription.quality_score >= 0 /\ prescription.quality_score <= 100

\* every relationship id resolves (every CELL of the model has a row and a
\* column index)
WellFormed == ~Dangling(blocks)

\* C2: for a structurally well-formed block graph the parser returns a
\* record and never raises, whatever the line and cell texts are.
C2_NeverRaises == WellFormed => pc # "raised"

\* C3: the warnings of a returned invoice are exactly one 'Missing required
\* field: <name>' per required field that is null, in required-field order,
\* followed by the low-coverage warning if and only if found_fields < 4.
C3_WarningsExact ==
    Returned =>
        LET w == invoice.warnings
            req == REQUIRED_FIELDS
        IN  /\ \A a \in 1..Len(req) :
                  Cardinality({k \in 1..Len(w) : w[k] = MissingField(req[a])})
                      = IF invoice[req[a]] = None THEN 1 ELSE 0
            /\ \A i, j \in 1..Len(w) : \A a, b \in 1..Len(req) :
                  (i < j /\ w[i] = MissingField(req[a]) /\ w[j] = MissingField(req[b]))
                      => a < b
            /\ (found_fields < 4) <=> (\E k \in 1..Len(w) : w[k] = LowCoverage)
            /\ \A k \in 1..Len(w) : w[k] = LowCoverage => k = Len(w)
            /\ \A k \in 1..Len(w) :
                  w[k] = LowCoverage \/ \E a \in 1..Len(req) : w[k] = MissingField(req[a])

\* an invoice is returned with three required fields found and the total
\* missing: one missing-field warning, then the low-coverage warning
C3_Witness ==
    /\ Returned
    /\ found_fields = 3
    /\ invoice.warnings = <<MissingField("invoice_total"), LowCoverage>>

\* C4: found_fields equals the number of required fields that are non-null
\* in the returned invoice, and currency is never set while invoice_total
\* is null.
C4_FoundFieldsCountsNonNull ==
    Returned =>
        /\ found_fields = Cardinality({a \in 1..Len(REQUIRED_FIELDS) :
                                          invoice[REQUIRED_FIELDS[a]] # None})
        /\ ~(invoice.currency # None /\ invoice.invoice_total = None)

\* the first line that matches the issue-date keyword holds a valid
\* day/month/year date; the value is that date
FirstIssueDateLine ==
    LET hits == {k \in 1..Len(lines) : Matched(Search(IssueDateKw, lines[k].text))}
    IN  IF hits = {} THEN None
        ELSE LET lit == DateLiteral(lines[Min(hits)].text)
             IN  IF lit = None \/ Strptime(lit[1]).exc # "" THEN None
                 ELSE Some(Strptime(lit[1]).val)

IsIsoString(v, date) == v.kind = "str" /\ v.text = IsoDate(date.y, date.m, date.d)

\* C5: when the first line matching the issue-date keyword contains a
\* valid day/month/year date, normalize_invoice returns with issue_date set
\* to that date as an ISO date string ("Data documento 15/03/2024" gives
\* 2024-03-15).
C5_GatedIssueDateIsIso ==
    (Terminated /\ FirstIssueDateLine # None) =>
        /\ Returned
        /\ invoice.issue_date # None
        /\ IsIsoString(invoice.issue_date[1], FirstIssueDateLine[1])

\* the last line with the total keyword and an amount
LastTotalLine ==
    LET hits == {k \in 1..Len(lines) :
                    /\ Matched(Search(TotalKw, lines[k].text))
                    /\ Matched(Search(TotalPat, lines[k].text))}
    IN  IF hits = {} THEN None ELSE Some(lines[Max(hits)].text)

\* C6: the line "TOTALE <euro> 1.234,56" yields invoice_total = 1234.56 and
\* currency = "<euro>", and currency is "EUR" whenever the total line has no
\* currency symbol.
C6_TotalParsed ==
    (Returned /\ LastTotalLine # None) =>
        /\ LastTotalLine[1] = <<"T", "O", "T", "A", "L", "E", " ", EuroSign, " ", "1", ".", "2", "3", "4", ",", "5", "6">>
              => /\ invoice.invoice_total = Some([num |-> 123456, den |-> 100])
                 /\ invoice.currency = Some(<<EuroSign>>)
        /\ (\A k \in 1..Len(LastTotalLine[1]) : LastTotalLine[1][k] \notin {EuroSign, "$"})
              => invoice.currency = Some(<<"E", "U", "R">>)

\* the cells of a TABLE block, the columns a row has a cell for, and the
\* rows with at least 4 distinct columns
CellsOf(t) ==
    {c \in {BlockById(blocks, id) : id \in Range(ChildIds(t))} : c.BlockType = "CELL"}
ColumnsOf(t, r) == {c.ColumnIndex : c \in {x \in CellsOf(t) : x.RowIndex = r}}
ItemRows(t) == {r \in {c.RowIndex : c \in CellsOf(t)} : Cardinality(ColumnsOf(t, r)) >= 4}

\* the item of row r of table t
ItemOfRow(t, r) ==
    LET row == TableRow(TableCells(t, blocks), blocks, r)
    IN  InvoiceLineItem(RowGet(row, 1), _safe_float(RowGet(row, 2)),
                        _safe_float(RowGet(row, 3)), _safe_float(RowGet(row, 4)))

\* one item per row of ItemRows(t), the k-th item from the k-th smallest row
ItemsInRowOrder(t) ==
    [k \in 1..Cardinality(ItemRows(t)) |->
        ItemOfRow(t, CHOOSE r \in ItemRows(t) :
                        Cardinality({q \in ItemRows(t) : q < r}) = k - 1)]

TableBlocks == SelectSeq(blocks, LAMBDA b : b.BlockType = "TABLE")

\* C7: the line items of a returned invoice are, table by table, exactly
\* the rows with at least 4 distinct column entries, one item per row, in
\* ascending row-index order whatever the order the CELL ids are listed in.
C7_LineItemsByRow ==
    Returned =>
        invoice.line_items =
            Flatten([k \in 1..Len(TableBlocks) |-> ItemsInRowOrder(TableBlocks[k])])

\* a table that lists its cells last row first, with rows 1 and 3 of 4
\* columns and row 2 of 3 columns: two items, row 1 then row 3
C7_Witness ==
    /\ Returned
    /\ blocks = TableDoc([r \in 1..MaxRows |->
                             IF r = 2 THEN {1, 2, 3} ELSE IF r \in {1, 3} THEN {1, 2, 3, 4} ELSE {}],
                         "desc")
    /\ Len(invoice.line_items) = 2
    /\ invoice.line_items[1].description = <<"i", "t", "e", "m", " ", "1">>
    /\ invoice.line_items[2].description = <<"i", "t", "e", "m", " ", "3">>

ScenarioLines ==
    <<<<"A", "M", "O", "X", "I", "C", "I", "L", "L", "I", "N", "A">>, <<"5", "0", "0", " ", "m", "g">>, <<"2", " ", "v", "o", "l", "t", "e", " ", "a", "l", " ", "g", "i", "o", "r", "n", "o">>, <<"p", "e", "r", " ", "7", " ", "g", "i", "o", "r", "n", "i">>,
      <<"A", "C", "I", "C", "L", "O", "V", "I", "R", " ", "C", "R", "E", "M", "A">>, <<"a", "p", "p", "l", "i", "c", "a", "r", "e", " ", "2", " ", "v", "o", "l", "t", "e", " ", "a", "l", " ", "d", IGrave>>>>

\* C8: every header line starts a medication named by that line, and the
\* scenario lines give exactly two medications: AMOXICILLINA with dosage
\* "500 mg", frequency "2 volte al giorno" and duration 7, then ACICLOVIR
\* CREMA with frequency "2 volte al giorno".
C8_MedicationGrouping ==
    Returned =>
        LET meds == prescription.medications
            headers == SelectSeq(lines, IsHeader)
        IN  /\ [k \in 1..Len(meds) |-> meds[k].drug_name]
                  = [k \in 1..Len(headers) |-> Some(headers[k])]
            /\ lines = ScenarioLines =>
                  /\ Len(meds) = 2
                  /\ meds[1].dosage_text = Some(<<"5", "0", "0", " ", "m", "g">>)
                  /\ meds[1].frequency_text = Some(<<"2", " ", "v", "o", "l", "t", "e", " ", "a", "l", " ", "g", "i", "o", "r", "n", "o">>)
                  /\ meds[1].duration_days = Some(7)
                  /\ meds[2].frequency_text = Some(<<"2", " ", "v", "o", "l", "t", "e", " ", "a", "l", " ", "g", "i", "o", "r", "n", "o">>)

\* lines with the keyword 'data' and a valid date, one in each grammar;
\* both dates are 15 March 2024 (the 2-digit year 24 is below 50)
DatedLines == {<<"D", "a", "t", "a", " ", "1", "5", " ", "m", "a", "r", "z", "o", " ", "2", "0", "2", "4">>, <<"D", "a", "t", "a", ":", " ", "1", "5", "/", "0", "3", "/", "2", "4">>}

\* C9: a line with the keyword 'data' and a valid date, numeric D/M/Y or
\* 'D <Italian month name> Y', sets prescription_date to that date as an ISO
\* date string.
C9_PrescriptionDateIsIso ==
    (Returned /\ \E k \in 1..Len(lines) : lines[k] \in DatedLines) =>
        prescription.prescription_date = Some(IsoDate(2024, 3, 15))

\* C10: in a returned prescription every duration_days is null or at least
\* 1, and prescriber_id is null or 11 to 16 alphanumeric characters.
C10_OptionalFieldContracts ==
    Returned =>
        /\ \A k \in 1..Len(prescription.medications) :
              LET dur == prescription.medications[k].duration_days
              IN  dur = None \/ dur[1] >= 1
        /\ LET id == prescription.prescriber_id
           IN  id = None
                   \/ /\ Len(id[1]) >= 11 /\ Len(id[1]) <= 16
                      /\ \A k \in 1..Len(id[1]) :
                            id[1][k] \in Digits \cup UpperSet \cup Range(LowerChars)


\* the positions of the header lines, in order
HeaderPositions == SortAsc({i \in 1..Len(lines) : IsHeader(lines[i])})

\* the continuation lines of the k-th medication: the lines after its header
\* line and before the next header line
ContinuationLines(hs, k) ==
    SubSeq(lines, hs[k] + 1, IF k < Len(hs) THEN hs[k + 1] - 1 ELSE Len(lines))

\* the values of an extractor on a sequence of lines, nulls left out
NonNull(extract(_), ls) ==
    SelectSeq([i \in 1..Len(ls) |-> extract(ls[i])], LAMBDA v : v # None)

\* the first non-null value, null if there is none
FirstOrNone(vs) == IF vs = <<>> THEN None ELSE vs[1]

\* C11: in a returned prescription every medication's dosage_text,
\* frequency_text, duration_days and quantity is the value its extractor gave
\* on the first continuation line of that medication where it returned
\* non-null (the integer 0 included): later lines do not change it.
C11_FirstNonNullWins ==
    Returned =>
        \A k \in 1..Len(prescription.medications) :
            /\ prescription.medications[k].dosage_text =
                  FirstOrNone(NonNull(_parse_dosage, ContinuationLines(HeaderPositions, k)))
            /\ prescription.medications[k].frequency_text =
                  FirstOrNone(NonNull(_parse_frequency, ContinuationLines(HeaderPositions, k)))
            /\ prescription.medications[k].duration_days =
                  FirstOrNone(NonNull(_parse_duration, ContinuationLines(HeaderPositions, k)))
            /\ prescription.medications[k].quantity =
                  FirstOrNone(NonNull(_parse_quantity, ContinuationLines(HeaderPositions, k)))
====
